---- MODULE Spec2Model ----
(***************************************************************************)
(* A model of the two platform handlers of local_ffmpeg:                   *)
(*   src/local_ffmpeg/__platform/__linux.py  (LinuxHandler)                *)
(*   src/local_ffmpeg/__platform/__osx.py    (MacOSHandler)                *)
(* The state is the filesystem the handlers act on and the record of the   *)
(* last handler call (its arguments, the filesystem before it, and what it *)
(* returned or raised).  Each handler method is one action.                *)
(*                                                                         *)
(* A path is the sequence of its components: an absolute path starts with  *)
(* the component "/", a relative one does not, and <<>> is the empty       *)
(* string.  A text (an architecture name) is the sequence of its           *)
(* characters, so that str.lower() is computed character by character.     *)
(***************************************************************************)
EXTENDS Integers, Sequences, FiniteSets, TLC

VARIABLES handler, fs, last

vars == <<handler, fs, last>>

\* ------------------------------------------------------------------ bounds

\* An archive of the model holds at most this many members.
MaxMembers == 3

\* ------------------------------------------------------------------- texts

Handlers == {"linux", "macos"}

\* for binary in ("ffmpeg", "ffprobe", "ffplay")
Binaries == <<"ffmpeg", "ffprobe", "ffplay">>

RECURSIVE SeqToSet(_)
SeqToSet(s) == IF s = <<>> THEN {} ELSE {Head(s)} \cup SeqToSet(Tail(s))

\* str.lower() on one character (the upper-case letters the model's values use).
LowerChar(c) ==
    CASE c = "A" -> "a" [] c = "M" -> "m" [] c = "D" -> "d" [] c = "R" -> "r"
      [] c = "X" -> "x" [] c = "I" -> "i" [] c = "P" -> "p" [] c = "S" -> "s"
      [] c = "C" -> "c" [] c = "H" -> "h"
      [] OTHER -> c

\* str.lower()
Lower(s) == [i \in 1..Len(s) |-> LowerChar(s[i])]

\* The values platform.machine() is given in the model.
T_x86_64  == <<"x", "8", "6", "_", "6", "4">>
T_amd64   == <<"a", "m", "d", "6", "4">>
T_aarch64 == <<"a", "a", "r", "c", "h", "6", "4">>
T_arm64   == <<"a", "r", "m", "6", "4">>
T_AMD64   == <<"A", "M", "D", "6", "4">>
T_ARM64   == <<"A", "R", "M", "6", "4">>
T_i686    == <<"i", "6", "8", "6">>
T_MIPS    == <<"M", "I", "P", "S">>

Machines == {T_x86_64, T_amd64, T_aarch64, T_arm64, T_AMD64, T_ARM64, T_i686, T_MIPS}

\* ------------------------------------------------------------------- paths

\* The process's working directory, against which relative paths resolve: in
\* the model it is the directory the archive was downloaded to.
Cwd == <<"/", "dl">>

IsAbs(p) == p # <<>> /\ Head(p) = "/"

\* What the operating system makes of a path string.
Resolve(p) == IF IsAbs(p) THEN p ELSE Cwd \o p

\* os.path.join(a, b)
Join(a, b) == IF IsAbs(b) THEN b ELSE a \o b

\* os.path.dirname(p)
Dirname(p) == IF p = <<>> THEN <<>> ELSE SubSeq(p, 1, Len(p) - 1)

\* os.path.basename(p)
Basename(p) == IF p = <<>> THEN "" ELSE p[Len(p)]

IsPrefix(a, b) == Len(a) <= Len(b) /\ SubSeq(b, 1, Len(a)) = a

\* ------------------------------------------------------------- filesystem
\* fs maps each existing absolute path to its node.

DirNode == [kind |-> "dir", mode |-> "0755", members |-> {}]

FileNode(mode) == [kind |-> "file", mode |-> mode, members |-> {}]

\* An archive file and the members it holds (each [name, mode]).
ArchiveNode(ms) == [kind |-> "archive", mode |-> "0644", members |-> ms]

IsDir(f, p) == p \in DOMAIN f /\ f[p].kind = "dir"

IsFile(f, p) == p \in DOMAIN f /\ f[p].kind # "dir"

\* os.path.exists(p): the empty string names nothing.
Exists(f, p) == p # <<>> /\ Resolve(p) \in DOMAIN f

\* os.access(p, os.X_OK)
Executable(f, p) == Exists(f, p) /\ f[Resolve(p)].mode = "0755"

Ok(f) == [ok |-> TRUE, fs |-> f, err |-> ""]

Err(f, e) == [ok |-> FALSE, fs |-> f, err |-> e]

\* os.makedirs(p, exist_ok=True) on an absolute path: every missing ancestor is
\* created; a component that exists and is no directory is an error.
RECURSIVE Makedirs(_, _)
Makedirs(f, p) ==
    IF p = <<>> THEN Err(f, "FileNotFoundError")
    ELSE IF p \in DOMAIN f
    THEN IF f[p].kind = "dir" THEN Ok(f) ELSE Err(f, "FileExistsError")
    ELSE LET up == Makedirs(f, Dirname(p))
         IN  IF ~up.ok
             THEN Err(up.fs, IF up.err = "FileExistsError" THEN "NotADirectoryError"
                                                              ELSE up.err)
             ELSE Ok((p :> DirNode) @@ up.fs)

Without(f, gone) == [q \in DOMAIN f \ gone |-> f[q]]

\* shutil.move(src, dst) of a file: into dst when dst is a directory (an error
\* when the name is taken there), else a rename that replaces dst.
Move(f, src, dst) ==
    IF ~IsFile(f, src) \/ ~IsDir(f, Dirname(dst)) THEN Err(f, "FileNotFoundError")
    ELSE IF src = dst THEN Ok(f)
    ELSE IF IsDir(f, dst)
    THEN LET real == dst \o <<Basename(src)>>
         IN  IF real \in DOMAIN f THEN Err(f, "shutil.Error")
             ELSE Ok((real :> f[src]) @@ Without(f, {src}))
    ELSE Ok((dst :> f[src]) @@ Without(f, {src, dst}))

\* os.chmod(p, mode)
Chmod(f, p, mode) ==
    IF p \notin DOMAIN f THEN Err(f, "FileNotFoundError")
    ELSE Ok([f EXCEPT ![p].mode = mode])

\* os.remove(p)
Remove(f, p) ==
    IF p \notin DOMAIN f THEN Err(f, "FileNotFoundError")
    ELSE IF f[p].kind = "dir" THEN Err(f, "IsADirectoryError")
    ELSE Ok(Without(f, {p}))

\* shutil.rmtree(p)
Rmtree(f, p) ==
    IF p \notin DOMAIN f THEN Err(f, "FileNotFoundError")
    ELSE IF f[p].kind # "dir" THEN Err(f, "NotADirectoryError")
    ELSE Ok(Without(f, {q \in DOMAIN f : IsPrefix(p, q)}))

\* ------------------------------------------------------------ call records

NoUrl == [base |-> "", name |-> "", ext |-> ""]

\* The record of a call: its arguments, the filesystem before it, and how it
\* ended (raised = "" when it returned).
Call(op) ==
    [op |-> op, machine |-> <<>>, download_path |-> <<>>, given |-> FALSE,
     path |-> <<>>, fault |-> "none", pre |-> fs,
     raised |-> "", text |-> "", cause |-> "", arg |-> <<>>,
     url |-> NoUrl, ret |-> "None", missing |-> <<>>, probes |-> <<>>]

\* -------------------------------------------------------- get_download_url

LinuxBaseUrl == "https://github.com/BtbN/FFmpeg-Builds/releases/download/latest"

MacBaseUrl == "https://github.com/ColorsWind/FFmpeg-macOS/releases/download/n5.0.1-patch3"

LinuxX86Url == [base |-> LinuxBaseUrl, name |-> "/ffmpeg-master-latest-linux64-gpl-shared", ext |-> ".tar.xz"]

LinuxArmUrl == [base |-> LinuxBaseUrl, name |-> "/ffmpeg-master-latest-linuxarm64-gpl-shared", ext |-> ".tar.xz"]

MacX86Url == [base |-> MacBaseUrl, name |-> "/FFmpeg_shared-n5.0.1-OSX-x86_64", ext |-> ".zip"]

MacArmUrl == [base |-> MacBaseUrl, name |-> "/FFmpeg-shared-n5.0.1-OSX-arm64", ext |-> ".zip"]

Returned(u) == [raised |-> "", text |-> "", arg |-> <<>>, url |-> u]

Unsupported(t, a) == [raised |-> "RuntimeError", text |-> t, arg |-> a, url |-> NoUrl]

\* A plausible slip: the value is compared as the platform gives it.
LinuxArchNotLowered(machine) == machine

\* arch = platform.machine().lower()
LinuxArch(machine) == Lower(machine)

\* LinuxHandler.get_download_url, given what platform.machine() returns.
LinuxGetDownloadUrl(machine) ==
    LET arch == LinuxArch(machine)
    IN  IF arch \in {T_x86_64, T_amd64} THEN Returned(LinuxX86Url)
        ELSE IF arch \in {T_aarch64, T_arm64} THEN Returned(LinuxArmUrl)
        ELSE Unsupported("Unsupported Linux architecture: ", arch)

\* MacOSHandler.get_download_url, given what platform.machine() returns.
MacGetDownloadUrl(machine) ==
    LET arch == machine
    IN  IF arch = T_x86_64 THEN Returned(MacX86Url)
        ELSE IF arch = T_arm64 THEN Returned(MacArmUrl)
        ELSE Unsupported("Unsupported macOS architecture: ", arch)

GetDownloadUrl ==
    \E machine \in Machines :
        LET r == IF handler = "linux" THEN LinuxGetDownloadUrl(machine)
                                      ELSE MacGetDownloadUrl(machine)
        IN  /\ last' = [Call("get_download_url") EXCEPT
                           !.machine = machine, !.raised = r.raised,
                           !.text = r.text, !.arg = r.arg, !.url = r.url]
            /\ UNCHANGED <<handler, fs>>

\* ------------------------------------------------------------------ install

\* The members an archive of the model may hold: the three binaries, a shared
\* library, a document, and a file under a directory whose name only ends in
\* "bin".
M_ffmpeg  == [name |-> <<"pkg", "bin", "ffmpeg">>, mode |-> "0755"]
M_ffprobe == [name |-> <<"pkg", "bin", "ffprobe">>, mode |-> "0644"]
M_ffplay  == [name |-> <<"pkg", "bin", "ffplay">>, mode |-> "0755"]
M_lib     == [name |-> <<"pkg", "lib", "libav.so">>, mode |-> "0644"]
M_doc     == [name |-> <<"pkg", "doc", "readme">>, mode |-> "0644"]
M_sbin    == [name |-> <<"pkg", "sbin", "x">>, mode |-> "0755"]

MemberUniverse == {M_ffmpeg, M_ffprobe, M_ffplay, M_lib, M_doc, M_sbin}

\* The path components of the model that end in "bin", and in "lib".
EndsInBin(c) == c \in {"bin", "sbin"}

EndsInLib(c) == c \in {"lib"}

\* "bin/" in name: a component other than the last is followed by "/".
ContainsBinSlash(name) == \E i \in 1..(Len(name) - 1) : EndsInBin(name[i])

\* "lib/" in name
ContainsLibSlash(name) == \E i \in 1..(Len(name) - 1) : EndsInLib(name[i])

\* if "bin/" in member.name or "lib/" in member.name
Selected(ms) == {m \in ms : ContainsBinSlash(m.name) \/ ContainsLibSlash(m.name)}

\* The operations of install the operating system may refuse: a fault names
\* the kind of operation, and the first operation of that kind is refused.
Faults == {"none", "open", "extract", "makedirs_root", "makedirs", "move", "chmod", "remove"}

\* tarfile.open(download_path, "r:xz") / zipfile.ZipFile(download_path, "r")
OpenArchive(f, download_path, fault) ==
    IF fault = "open" THEN Err(f, "PermissionError")
    ELSE IF ~Exists(f, download_path) THEN Err(f, "FileNotFoundError")
    ELSE IF f[Resolve(download_path)].kind = "dir" THEN Err(f, "IsADirectoryError")
    ELSE IF f[Resolve(download_path)].kind # "archive" THEN Err(f, "ReadError")
    ELSE Ok(f)

\* One member written below dest: tarfile keeps the member's mode, zipfile
\* writes the file with the default mode.
ExtractOne(f, dest, m, h) ==
    LET target == Resolve(Join(dest, m.name))
        up     == Makedirs(f, Dirname(target))
    IN  IF ~up.ok THEN up
        ELSE IF IsDir(up.fs, target) THEN Err(up.fs, "IsADirectoryError")
        ELSE Ok((target :> FileNode(IF h = "linux" THEN m.mode ELSE "0644"))
                    @@ Without(up.fs, {target}))

RECURSIVE ExtractAll(_, _, _, _)
\* tar.extractall(path=dest, members=ms) / zip_ref.extract(m, path=dest) for each
ExtractAll(f, dest, ms, h) ==
    IF ms = {} THEN Ok(f)
    ELSE LET m == CHOOSE x \in ms : TRUE
             r == ExtractOne(f, dest, m, h)
         IN  IF ~r.ok THEN r ELSE ExtractAll(r.fs, dest, ms \ {m}, h)

\* The roots os.walk(top) yields: none for the empty string (its scandir
\* fails and os.walk swallows the error) or for what is no directory.
WalkDirs(f, top) ==
    IF top = <<>> \/ ~IsDir(f, Resolve(top)) THEN {}
    ELSE {d \in DOMAIN f : IsDir(f, d) /\ IsPrefix(Resolve(top), d)}

\* The files os.walk lists in one root.
FilesIn(f, d) == {q \in DOMAIN f : IsFile(f, q) /\ Dirname(q) = d}

\* subdir = pathlib.Path(root).relative_to(extracted_dir).name
Subdir(root, top) == IF root = Resolve(top) THEN "" ELSE Basename(root)

\* if subdir == "bin"
MatchesBin(subdir) == subdir = "bin"

\* elif subdir == "lib"
MatchesLib(subdir) == subdir = "lib"

\* os.chmod(dst, 0o755)  # Make executable
MakeExecutable(f, dst, fault) ==
    IF fault = "chmod" THEN Err(f, "PermissionError") ELSE Chmod(f, dst, "0755")

RECURSIVE MoveFiles(_, _, _, _, _, _)
\* for file in files: shutil.move(src, dst) [; os.chmod(dst, 0o755)]
MoveFiles(f, root, files, ip, subdir, fault) ==
    IF files = <<>> THEN Ok(f)
    ELSE LET src == root \o <<Head(files)>>
             dst == Resolve(Join(ip, <<subdir, Head(files)>>))
             mv  == IF fault = "move" THEN Err(f, "PermissionError") ELSE Move(f, src, dst)
             ch  == IF MatchesBin(subdir) THEN MakeExecutable(mv.fs, dst, fault) ELSE mv
         IN  IF ~mv.ok THEN mv
             ELSE IF ~ch.ok THEN ch
             ELSE MoveFiles(ch.fs, root, Tail(files), ip, subdir, fault)

\* One root of the walk: a root named bin or lib is emptied into the directory
\* of that name below the install path.
VisitRoot(f, root, top, ip, fault, nameOrder) ==
    LET subdir == Subdir(root, top)
        files  == SelectSeq(nameOrder, LAMBDA n : (root \o <<n>>) \in FilesIn(f, root))
        made   == IF fault = "makedirs" THEN Err(f, "PermissionError")
                  ELSE Makedirs(f, Resolve(Join(ip, <<subdir>>)))
    IN  IF ~(MatchesBin(subdir) \/ MatchesLib(subdir)) THEN Ok(f)
        ELSE IF ~made.ok THEN made
        ELSE MoveFiles(made.fs, root, files, ip, subdir, fault)

RECURSIVE WalkAndMove(_, _, _, _, _, _)
\* for root, _, files in os.walk(extracted_dir): ...
WalkAndMove(f, roots, top, ip, fault, nameOrder) ==
    IF roots = <<>> THEN Ok(f)
    ELSE LET r == VisitRoot(f, Head(roots), top, ip, fault, nameOrder)
         IN  IF ~r.ok THEN r
             ELSE WalkAndMove(r.fs, Tail(roots), top, ip, fault, nameOrder)

\* A plausible slip: the archive is left where it was.
CleanUpSkipped(f, download_path, fault) == Ok(f)

\* if os.path.exists(download_path): os.remove(download_path)
CleanUp(f, download_path, fault) ==
    IF ~Exists(f, download_path) THEN Ok(f)
    ELSE IF fault = "remove" THEN Err(f, "PermissionError")
    ELSE Remove(f, Resolve(download_path))

RECURSIVE Perms(_)
\* The orders in which a directory scan may list a set of entries.
Perms(S) ==
    IF S = {} THEN {<<>>}
    ELSE UNION {{<<x>> \o p : p \in Perms(S \ {x})} : x \in S}

\* The roots of a walk whose files install moves, and those files' names.
MatchedRoots(f, top) ==
    {d \in WalkDirs(f, top) : MatchesBin(Subdir(d, top)) \/ MatchesLib(Subdir(d, top))}

MatchedNames(f, top) == {Basename(q) : q \in UNION {FilesIn(f, d) : d \in MatchedRoots(f, top)}}

\* The walk and the clean-up, for every order the scan may take.
MoveAndCleanUp(f, download_path, ip, fault) ==
    LET top == Dirname(download_path)
    IN  {LET mv == WalkAndMove(f, roots, top, ip, fault, names)
         IN  IF ~mv.ok THEN mv ELSE CleanUp(mv.fs, download_path, fault)
         : roots \in Perms(MatchedRoots(f, top)), names \in Perms(MatchedNames(f, top))}

\* How a call of install ends: what it raised ("" when it returned) and the
\* filesystem it leaves.
Ended(f, raised, text, cause) == [fs |-> f, raised |-> raised, text |-> text, cause |-> cause]

\* except Exception as e: raise RuntimeError(f"Failed to install FFmpeg: {e}")
Wrap(r) ==
    IF r.ok THEN Ended(r.fs, "", "", "")
    ELSE Ended(r.fs, "RuntimeError", "Failed to install FFmpeg: ", r.err)

\* The try block of LinuxHandler.install.
LinuxTry(f, download_path, ip, fault) ==
    LET opened  == OpenArchive(f, download_path, fault)
        members == Selected(f[Resolve(download_path)].members)
        ex      == IF fault = "extract" THEN Err(f, "PermissionError")
                   ELSE ExtractAll(f, Dirname(download_path), members, "linux")
    IN  IF ~opened.ok THEN {opened}
        ELSE IF members = {} THEN {Err(f, "No FFmpeg binaries found in archive")}
        ELSE IF ~ex.ok THEN {ex}
        ELSE MoveAndCleanUp(ex.fs, download_path, ip, fault)

\* LinuxHandler.install(download_path, install_path)
LinuxInstall(f, download_path, ip, fault) ==
    {Wrap(r) : r \in LinuxTry(f, download_path, ip, fault)}

\* The try block of MacOSHandler.install.
MacTry(f, download_path, ip, fault) ==
    LET opened  == OpenArchive(f, download_path, fault)
        members == Selected(f[Resolve(download_path)].members)
        ex      == IF fault = "extract" /\ members # {} THEN Err(f, "PermissionError")
                   ELSE ExtractAll(f, Dirname(download_path), members, "macos")
    IN  IF ~opened.ok THEN {opened}
        ELSE IF ~ex.ok THEN {ex}
        ELSE MoveAndCleanUp(ex.fs, download_path, ip, fault)

\* MacOSHandler.install(download_path, install_path)
MacInstall(f, download_path, ip, fault) ==
    LET root == IF fault = "makedirs_root" THEN Err(f, "PermissionError")
                ELSE Makedirs(f, Resolve(ip))
    IN  IF ~root.ok THEN {Ended(root.fs, root.err, "", "")}
        ELSE {Wrap(r) : r \in MacTry(root.fs, download_path, ip, fault)}

\* The install path of the model, and the two ways its caller may name the
\* archive: by its full path, or by its bare file name.
P == <<"/", "opt">>

DownloadPaths == {<<"/", "dl", "archive">>, <<"archive">>}

FaultsOf(h) == IF h = "linux" THEN Faults \ {"none", "makedirs_root"} ELSE Faults \ {"none"}

InstallWith(download_path, fault) ==
    \E r \in (IF handler = "linux" THEN LinuxInstall(fs, download_path, P, fault)
                                   ELSE MacInstall(fs, download_path, P, fault)) :
        /\ fs' = r.fs
        /\ last' = [Call("install") EXCEPT
                       !.download_path = download_path, !.path = P, !.given = TRUE,
                       !.fault = fault, !.raised = r.raised, !.text = r.text,
                       !.cause = r.cause]
        /\ UNCHANGED handler

\* install(download_path, install_path) on an operating system that refuses
\* nothing it can do.
Install == \E download_path \in DownloadPaths : InstallWith(download_path, "none")

\* install(download_path, install_path) with one operation refused.
InstallFaulty ==
    \E download_path \in DownloadPaths, fault \in FaultsOf(handler) :
        InstallWith(download_path, fault)

\* ---------------------------------------------------------------- uninstall

\* A plausible slip: lib is forgotten.
UninstallTargetsBinOnly == <<"bin">>

\* for dir in ("bin", "lib")
UninstallTargets == <<"bin", "lib">>

RECURSIVE UninstallDirs(_, _, _, _)
\* dir_path = os.path.join(install_path, dir)
\* if os.path.exists(dir_path): shutil.rmtree(dir_path)
\* (an injected fault is the refusal of the first removal)
UninstallDirs(f, ip, dirs, fault) ==
    IF dirs = <<>> THEN Ok(f)
    ELSE LET dir_path == Join(ip, <<Head(dirs)>>)
             r == IF fault = "rmtree" THEN Err(f, "PermissionError")
                  ELSE Rmtree(f, Resolve(dir_path))
         IN  IF ~Exists(f, dir_path) THEN UninstallDirs(f, ip, Tail(dirs), fault)
             ELSE IF ~r.ok THEN r
             ELSE UninstallDirs(r.fs, ip, Tail(dirs), fault)

UninstallWith(fault) ==
    LET r == UninstallDirs(fs, P, UninstallTargets, fault)
    IN  /\ fs' = r.fs
        /\ last' = [Call("uninstall") EXCEPT
                       !.path = P, !.given = TRUE, !.fault = fault, !.raised = r.err]
        /\ UNCHANGED handler

\* LinuxHandler.uninstall and MacOSHandler.uninstall (the same code)
Uninstall == UninstallWith("none")

\* uninstall(install_path) with its first removal refused.
UninstallFaulty == UninstallWith("rmtree")

\* ---------------------------------------------------------- check_installed

\* How subprocess.run([target, "-version"], ..., timeout=5) may end: with exit
\* code zero, with another exit code, or by raising.
Outcomes == {"exit0", "nonzero", "TimeoutExpired", "OSError"}

\* The class of an exception outcome, as the except clause sees it.
ExceptionClass(o) == IF o = "TimeoutExpired" THEN "SubprocessError" ELSE "OSError"

\* A plausible slip: only the subprocess errors are caught.
CaughtSubprocessOnly(o) == ExceptionClass(o) \in {"SubprocessError"}

\* except (subprocess.SubprocessError, OSError) as e
Caught(o) == ExceptionClass(o) \in {"SubprocessError", "OSError"}

\* What running a file can do: only an executable regular file is launched.
Feasible(f, target, o) ==
    \/ o = "OSError"
    \/ IsFile(f, Resolve(target)) /\ Executable(f, target)

\* How a call of check_installed ends.
Checked(ret, raised, text, missing, probes) ==
    [ret |-> ret, raised |-> raised, text |-> text, missing |-> missing, probes |-> probes]

\* A plausible slip: a failed invocation does not end the loop.
RECURSIVE HealthPhaseNoShortCircuit(_, _, _, _, _)
HealthPhaseNoShortCircuit(i, targets, env, probes, failTexts) ==
    IF i > Len(Binaries)
    THEN Checked(IF \E k \in 1..Len(probes) : probes[k].outcome # "exit0" THEN "False" ELSE "True",
                 "", "", <<>>, probes)
    ELSE HealthPhaseNoShortCircuit(i + 1, targets, env,
             Append(probes, [binary |-> Binaries[i], target |-> targets[i],
                             outcome |-> env[Binaries[i]]]), failTexts)

RECURSIVE HealthPhase(_, _, _, _, _)
\* for binary in ("ffmpeg", "ffprobe", "ffplay"):
\*     try: result = subprocess.run(...); if result.returncode != 0: return False
\*     except (subprocess.SubprocessError, OSError): return False
\* return True
HealthPhase(i, targets, env, probes, failTexts) ==
    IF i > Len(Binaries) THEN Checked("True", "", "", <<>>, probes)
    ELSE LET o    == env[Binaries[i]]
             seen == Append(probes, [binary |-> Binaries[i], target |-> targets[i],
                                     outcome |-> o])
         IN  IF o = "exit0" THEN HealthPhase(i + 1, targets, env, seen, failTexts)
             ELSE IF o = "nonzero" THEN Checked("False", "", failTexts[1], <<>>, seen)
             ELSE IF Caught(o) THEN Checked("False", "", failTexts[2], <<>>, seen)
             ELSE Checked("None", o, "", <<>>, seen)

\* binary_path = os.path.join(path, binary), for each binary
BinaryPaths(path) == [i \in 1..Len(Binaries) |-> Join(path, <<Binaries[i]>>)]

\* The bare command names of the no-path mode.
BareCommands == [i \in 1..Len(Binaries) |-> <<Binaries[i]>>]

\* if missing: print("Missing binaries:", ...); return False
ExistencePhaseFails(missing) == missing # <<>>

\* The existence test of the first phase: os.path.exists(binary_path), and on
\* macOS os.access(binary_path, os.X_OK) as well.
PassesExistence(h, f, p) == Exists(f, p) /\ (h = "macos" => Executable(f, p))

\* The two phases on the binaries below path.
CheckAt(h, f, path, env) ==
    LET missing == SelectSeq(Binaries, LAMBDA b : ~PassesExistence(h, f, Join(path, <<b>>)))
    IN  IF ExistencePhaseFails(missing)
        THEN Checked("False", "", "Missing binaries:", missing, <<>>)
        ELSE HealthPhase(1, BinaryPaths(path), env, <<>>,
                 <<"Binary exists but returned error code", "Error while executing">>)

\* LinuxHandler.check_installed(path)
LinuxCheckInstalled(f, given, path, env) ==
    IF ~given \/ path = <<>>
    THEN Checked("False", "", "FFmpeg installation path is not specified.", <<>>, <<>>)
    ELSE CheckAt("linux", f, path, env)

\* if path and os.path.exists(path)
MacUsesPath(f, given, path) == given /\ path # <<>> /\ Exists(f, path)

\* MacOSHandler.check_installed(path)
MacCheckInstalled(f, given, path, env) ==
    IF MacUsesPath(f, given, path)
    THEN CheckAt("macos", f, path, env)
    ELSE HealthPhase(1, BareCommands, env, <<>>,
             <<"Global binary returned error code", "Error while executing global binary">>)

\* The path arguments of the model: None, the empty string, the install path,
\* its bin directory, and a path that does not exist.
CheckArgs ==
    {[given |-> FALSE, path |-> <<>>], [given |-> TRUE, path |-> <<>>],
     [given |-> TRUE, path |-> P], [given |-> TRUE, path |-> P \o <<"bin">>],
     [given |-> TRUE, path |-> <<"/", "nope">>]}

\* Whether the call, on this filesystem, invokes the files below path (else, on
\* macOS, the bare commands, whose outcome the filesystem does not decide).
ProbesFiles(h, f, a) == h = "linux" \/ MacUsesPath(f, a.given, a.path)

\* What the binaries do when invoked: at most one of them is broken, in one of
\* the three ways; a file that cannot be launched raises OSError.
Envs(h, f, a) ==
    {[b \in SeqToSet(Binaries) |->
         IF ProbesFiles(h, f, a) /\ ~Feasible(f, Join(a.path, <<b>>), "exit0") THEN "OSError"
         ELSE IF b = broken THEN how ELSE "exit0"]
     : broken \in SeqToSet(Binaries) \cup {"none"}, how \in Outcomes \ {"exit0"}}

CheckInstalled ==
    \E a \in CheckArgs :
        \E env \in Envs(handler, fs, a) :
            /\ LET r == IF handler = "linux"
                        THEN LinuxCheckInstalled(fs, a.given, a.path, env)
                        ELSE MacCheckInstalled(fs, a.given, a.path, env)
               IN  last' = [Call("check_installed") EXCEPT
                               !.given = a.given, !.path = a.path, !.ret = r.ret,
                               !.raised = r.raised, !.text = r.text,
                               !.missing = r.missing, !.probes = r.probes]
            /\ UNCHANGED <<handler, fs>>

\* ------------------------------------------------------------ specification

BaseFs == (<<"/">> :> DirNode) @@ (Cwd :> DirNode)

\* The install path before the first call: a directory holding a file of the
\* user's.
UserFs == (P :> DirNode) @@ (P \o <<"keep">> :> FileNode("0644"))

Archives == {ms \in SUBSET MemberUniverse : Cardinality(ms) <= MaxMembers}

\* The archive has been downloaded; no handler has been called.
Init ==
    /\ handler \in Handlers
    /\ \E ms \in Archives :
           fs = (<<"/", "dl", "archive">> :> ArchiveNode(ms)) @@ UserFs @@ BaseFs
    /\ last = Call("init")

Next == Install \/ Uninstall \/ UninstallFaulty \/ CheckInstalled

\* The three operations on a filesystem; a removal may be refused.
Spec == Init /\ [][Next]_vars

NextFaults == Install \/ InstallFaulty

\* install with operations the operating system may refuse.
SpecFaults == Init /\ [][NextFaults]_vars

\* The URL resolver alone.
SpecUrl == Init /\ [][GetDownloadUrl]_vars

\* ------------------------------------------------------------------ claims

ArchivePath == <<"/", "dl", "archive">>

PBin == P \o <<"bin">>

PLib == P \o <<"lib">>

IsInstall == last.op = "install"

IsUninstall == last.op = "uninstall"

IsCheck == last.op = "check_installed"

IsUrl == last.op = "get_download_url"

\* The members of the archive the last call was given.
GivenMembers == last.pre[ArchivePath].members

\* The last call was an install handed a readable archive.
InstallOfArchive == IsInstall /\ ArchivePath \in DOMAIN last.pre

\* The names of the files directly in directory d.
NamesIn(f, d) == {Basename(q) : q \in FilesIn(f, d)}

\* The members lying directly in a directory of the given name.
DirectlyIn(ms, dir) == {m \in ms : Len(m.name) >= 2 /\ m.name[Len(m.name) - 1] = dir}

FailedProbe == \E k \in 1..Len(last.probes) : last.probes[k].outcome # "exit0"

\* C1: a successful install(download_path, P) followed immediately by
\* check_installed(P), on the same path P, returns true when the archive holds
\* ffmpeg, ffprobe and ffplay under a bin/ directory and no binary that is
\* invoked fails (here with the archive named by its full path).
C1_RoundTripSamePath ==
    [][(/\ IsInstall /\ last.raised = ""
        /\ last.download_path = ArchivePath
        /\ {M_ffmpeg, M_ffprobe, M_ffplay} \subseteq GivenMembers
        /\ last'.op = "check_installed" /\ last'.given /\ last'.path = last.path
        /\ \A k \in 1..Len(last'.probes) : last'.probes[k].outcome = "exit0")
       => last'.ret = "True"]_vars

\* C2: for a non-empty path, check_installed returns false when one of the
\* three files is not below path (also when path itself does not exist) and
\* when an invoked binary exits non-zero or times out, and returns true only
\* when all three files exist below path and all three exited with code zero.
C2_CheckVerdict ==
    (IsCheck /\ last.given /\ last.path # <<>>) =>
        /\ (\E b \in SeqToSet(Binaries) : ~Exists(fs, Join(last.path, <<b>>)))
               => last.ret = "False"
        /\ (\E k \in 1..Len(last.probes) :
                last.probes[k].outcome \in {"nonzero", "TimeoutExpired"})
               => last.ret = "False"
        /\ last.ret = "True" =>
               /\ \A b \in SeqToSet(Binaries) : Exists(fs, Join(last.path, <<b>>))
               /\ Len(last.probes) = Len(Binaries)
               /\ \A k \in 1..Len(last.probes) :
                      /\ last.probes[k].target = Join(last.path, <<Binaries[k]>>)
                      /\ last.probes[k].outcome = "exit0"

\* C3: when the archive has no member whose path contains bin/ or lib/,
\* install fails with the "no FFmpeg binaries found" install error and creates
\* neither install_path/bin nor install_path/lib.
C3_NoBinariesFails ==
    (InstallOfArchive /\ Selected(GivenMembers) = {}) =>
        /\ last.raised = "RuntimeError"
        /\ last.cause = "No FFmpeg binaries found in archive"
        /\ ~Exists(fs, PBin) /\ ~Exists(fs, PLib)

X86Url(h) == IF h = "linux" THEN LinuxX86Url ELSE MacX86Url

ArmUrl(h) == IF h = "linux" THEN LinuxArmUrl ELSE MacArmUrl

Extension(h) == IF h = "linux" THEN ".tar.xz" ELSE ".zip"

\* C4 as claimed: on both handlers x86_64 and amd64 give the 64-bit x86 URL,
\* aarch64 and arm64 the 64-bit ARM URL, a returned URL ends with the OS's
\* extension, and every other value raises the unsupported-architecture error
\* with that value in its message (read, in the claim's favour, of the values
\* that are already in lower case).
C4_AliasesOnBothHandlers ==
    IsUrl =>
        /\ last.machine \in {T_x86_64, T_amd64}
               => last.raised = "" /\ last.url = X86Url(handler)
        /\ last.machine \in {T_aarch64, T_arm64}
               => last.raised = "" /\ last.url = ArmUrl(handler)
        /\ last.raised = "" => last.url.ext = Extension(handler)
        /\ (last.machine \notin {T_x86_64, T_amd64, T_aarch64, T_arm64}
                /\ last.machine = Lower(last.machine))
               => last.raised = "RuntimeError" /\ last.arg = last.machine

\* C4 as amended: LinuxHandler compares the lower-cased value, so x86_64 and
\* amd64 in any case give the x86 URL, aarch64 and arm64 in any case the ARM
\* URL, and any other value raises with the lower-cased value in the message;
\* MacOSHandler gives the x86 URL for x86_64 only and the ARM URL for arm64
\* only, and raises for every other value, amd64 and aarch64 included, with
\* the value in the message.  A returned URL ends with the OS's extension.
C4_AliasesPerHandler ==
    IsUrl =>
        /\ last.raised \in {"", "RuntimeError"}
        /\ last.raised = "" => last.url.ext = Extension(handler)
        /\ handler = "linux" =>
               /\ last.machine \in {T_x86_64, T_amd64, T_AMD64}
                      => last.raised = "" /\ last.url = LinuxX86Url
               /\ last.machine \in {T_aarch64, T_arm64, T_ARM64}
                      => last.raised = "" /\ last.url = LinuxArmUrl
               /\ last.machine = T_i686
                      => last.raised = "RuntimeError" /\ last.arg = T_i686
               /\ last.machine = T_MIPS
                      => last.raised = "RuntimeError" /\ last.arg = <<"m", "i", "p", "s">>
        /\ handler = "macos" =>
               /\ last.machine = T_x86_64 => last.raised = "" /\ last.url = MacX86Url
               /\ last.machine = T_arm64 => last.raised = "" /\ last.url = MacArmUrl
               /\ last.machine \notin {T_x86_64, T_arm64}
                      => last.raised = "RuntimeError" /\ last.arg = last.machine

\* C4's case: MacOSHandler asked on a host that reports amd64 raises, and
\* LinuxHandler asked on a host that reports AMD64 returns.
C4_Witness ==
    /\ IsUrl
    /\ \/ handler = "macos" /\ last.machine = T_amd64 /\ last.raised = "RuntimeError"
       \/ handler = "linux" /\ last.machine = T_AMD64 /\ last.url = LinuxX86Url

\* C5: with a scratch directory that holds nothing but the archive and an
\* install path without bin and lib, a successful install leaves in
\* install_path/bin exactly the files of the members lying directly in a
\* directory named bin, each with mode 0755, in install_path/lib exactly those
\* of the members lying directly in a directory named lib, and no member whose
\* path contains neither bin/ nor lib/ in the scratch directory or below the
\* install path.
C5_ExactlyBinAndLib ==
    (/\ InstallOfArchive /\ last.raised = ""
     /\ \A q \in DOMAIN last.pre : IsPrefix(Cwd, q) => q \in {Cwd, ArchivePath}
     /\ ~Exists(last.pre, PBin) /\ ~Exists(last.pre, PLib)) =>
        /\ NamesIn(fs, PBin) = {Basename(m.name) : m \in DirectlyIn(GivenMembers, "bin")}
        /\ \A q \in FilesIn(fs, PBin) : fs[q].mode = "0755"
        /\ NamesIn(fs, PLib) = {Basename(m.name) : m \in DirectlyIn(GivenMembers, "lib")}
        /\ \A m \in GivenMembers \ Selected(GivenMembers) :
               /\ (Cwd \o m.name) \notin DOMAIN fs
               /\ \A q \in DOMAIN fs : IsPrefix(P, q) => Basename(q) # Basename(m.name)

\* C6: after an install call that returns without raising, no file exists at
\* download_path.
C6_ArchiveDeleted ==
    (IsInstall /\ last.raised = "") => ~Exists(fs, last.download_path)

\* C6's case: an install that was handed an existing archive has returned.
C6_Witness ==
    /\ IsInstall /\ last.raised = ""
    /\ Exists(last.pre, last.download_path)
    /\ Selected(GivenMembers) # {}

\* What lies outside install_path/bin and install_path/lib.
Outside(f) == {q \in DOMAIN f : ~IsPrefix(PBin, q) /\ ~IsPrefix(PLib, q)}

\* C7: an uninstall that returns leaves neither install_path/bin nor
\* install_path/lib; when both are already absent it returns and changes
\* nothing; and however it ends, install_path and every entry other than bin
\* and lib are as they were, and nothing is added.
C7_UninstallFrame ==
    IsUninstall =>
        /\ last.raised = "" => ~Exists(fs, PBin) /\ ~Exists(fs, PLib)
        /\ (~Exists(last.pre, PBin) /\ ~Exists(last.pre, PLib))
               => last.raised = "" /\ fs = last.pre
        /\ Outside(fs) = Outside(last.pre)
        /\ \A q \in Outside(fs) : fs[q] = last.pre[q]
        /\ DOMAIN fs \subseteq DOMAIN last.pre

\* C7's case: an uninstall has removed a bin and a lib that held files, beside
\* the user's file.
C7_Witness ==
    /\ IsUninstall /\ last.raised = ""
    /\ FilesIn(last.pre, PBin) # {} /\ FilesIn(last.pre, PLib) # {}
    /\ (P \o <<"keep">>) \in DOMAIN fs

\* C8: check_installed never raises: whatever the path argument and however
\* the probes end, it returns a boolean, and it returns false when a file is
\* missing or not executable and when an invocation exits non-zero, times out
\* or cannot be launched.
C8_CheckNeverRaises ==
    IsCheck =>
        /\ last.raised = ""
        /\ last.ret \in {"True", "False"}
        /\ (last.missing # <<>> \/ FailedProbe) => last.ret = "False"

\* C8's case: an invocation could not be launched and the call returned false.
C8_Witness ==
    /\ IsCheck /\ last.ret = "False"
    /\ \E k \in 1..Len(last.probes) : last.probes[k].outcome = "OSError"

\* C9: every failure of install reaches the caller as the wrapped install
\* error, RuntimeError "Failed to install FFmpeg: <cause>".
C9_FailuresWrapped ==
    (IsInstall /\ last.raised # "") =>
        /\ last.raised = "RuntimeError"
        /\ last.text = "Failed to install FFmpeg: "

\* C10: check_installed on an existing path invokes no binary unless all three
\* passed the existence phase, invokes them in the order ffmpeg, ffprobe,
\* ffplay, and after a failed invocation invokes no other and returns false.
C10_ProbeOrder ==
    (IsCheck /\ last.given /\ last.path # <<>> /\ Exists(fs, last.path)) =>
        /\ last.probes # <<>> =>
               \A b \in SeqToSet(Binaries) :
                   PassesExistence(handler, fs, Join(last.path, <<b>>))
        /\ Len(last.probes) <= Len(Binaries)
        /\ \A k \in 1..Len(last.probes) :
               /\ last.probes[k].binary = Binaries[k]
               /\ last.probes[k].target = Join(last.path, <<Binaries[k]>>)
               /\ k < Len(last.probes) => last.probes[k].outcome = "exit0"
        /\ FailedProbe => last.ret = "False"

\* C10's case: ffmpeg answered, ffprobe failed, ffplay was not invoked.
C10_Witness ==
    /\ IsCheck /\ last.path = PBin /\ last.ret = "False"
    /\ Len(last.probes) = 2
    /\ last.probes[1].outcome = "exit0" /\ last.probes[2].outcome # "exit0"

====
